---- MODULE Spec2Model ----
(***************************************************************************)
(* A model of the pythx command line front end (pythx/cli/main.py):        *)
(* the offset-to-position resolver, the credential-file parser and the     *)
(* commands ps, top, check and report.                                     *)
(***************************************************************************)
EXTENDS Integers, Sequences, FiniteSets, TLC

(***************************************************************************)
(* Bounds of the model.                                                    *)
(***************************************************************************)
MaxLines == 3
MaxLineLen == 2
MaxExtra == 1
MaxOffset == 7
MaxNumber == 3
MaxAnalyses == 4
MaxTopIter == 2
MaxStrLen == 2
MaxIssues == 2
MaxLocs == 2

VARIABLES
    r_file,      \* resolver: the file passed as filename, a sequence of lines
    r_offset,    \* resolver: the offset argument
    r_ret,       \* resolver: how the call ended (NotCalled before it)
    config_file, \* the credential file at the --config path
    p_tokens,    \* parse_config: the tokens_required argument
    p_ret,       \* parse_config: how the call ended (NotParsed before it)
    config0,     \* the credential file as it was when the command started
    pc,          \* where the command is: "start", "top", "report", "done"
    cmd,         \* the command that runs ("" before it starts)
    term,        \* how the process ended (Running until it does)
    out,         \* what the command has echoed to the terminal
    client,      \* c, the recovered Client
    called,      \* the Client methods called so far
    writes,      \* how many times update_config has written the file
    number,      \* ps: the --number argument
    listing,     \* ps, top: the analyses the last analysis_list returned
    iter,        \* top: how many rounds of the loop have started
    args,        \* check: the options --bytecode, --source and the two files
    analyze_args,  \* check: the arguments of the call c.analyze
    source_list, \* report: resp.source_list
    issue,       \* report: the loop variable issue
    issue_ctr,   \* report: how many issues of resp.issues the loop has taken
    filename,    \* report: the local filename (Unbound until assigned)
    position,    \* report: the locals line and column (unbound until assigned)
    file_to_issue,  \* report: the rows filed per file, files in insertion order
    resolved     \* report: whether get_source_location_by_offset was called

rvars == <<r_file, r_offset, r_ret>>
pvars == <<p_tokens, p_ret>>
cvars == <<config0, pc, cmd, term, out, client, called, writes>>
psvars == <<number, listing, iter>>
kvars == <<args, analyze_args>>
repvars == <<source_list, issue, issue_ctr, filename, position, file_to_issue, resolved>>
vars == <<r_file, r_offset, r_ret, config_file, p_tokens, p_ret,
          config0, pc, cmd, term, out, client, called, writes,
          number, listing, iter, args, analyze_args,
          source_list, issue, issue_ctr, filename, position, file_to_issue, resolved>>

SeqsUpTo(S, n) == UNION {[1..k -> S] : k \in 0..n}

(***************************************************************************)
(* Values that may be None, and strings as sequences of characters.        *)
(***************************************************************************)
None == [some |-> FALSE, v |-> <<>>]

Some(v) == [some |-> TRUE, v |-> v]

Opt(S) == {None} \cup {Some(v) : v \in S}

\* The truth value of an optional string or list: None and the empty one are
\* false.
Truthy(o) == o.some /\ o.v # <<>>

Chars == {" ", "x"}

Strings == SeqsUpTo(Chars, MaxStrLen)

RECURSIVE lstrip(_)
lstrip(str) == IF str # <<>> /\ Head(str) = " " THEN lstrip(Tail(str)) ELSE str

RECURSIVE rstrip(_)
rstrip(str) ==
    IF str # <<>> /\ str[Len(str)] = " "
    THEN rstrip(SubSeq(str, 1, Len(str) - 1))
    ELSE str

\* str.strip()
strip(str) == rstrip(lstrip(str))

(***************************************************************************)
(* Text files.  A file is the sequence of lines that iterating over it in  *)
(* text mode yields.  A line is measured twice: chars is len(line), the    *)
(* number of decoded characters with the terminator read as one "\n";      *)
(* extra is the number of further bytes the line takes on disk (the        *)
(* continuation bytes of multi-byte characters, the "\r" of a "\r\n").     *)
(* A line that iteration yields is never empty: chars >= 1.                *)
(***************************************************************************)
Lines == [chars : 1..MaxLineLen, extra : 0..MaxExtra]

Files == SeqsUpTo(Lines, MaxLines)

Offsets == (0 - 1)..MaxOffset

len(line) == line.chars

byteLen(line) == line.chars + line.extra

RECURSIVE SumLen(_, _)
SumLen(f, n) == IF n = 0 THEN 0 ELSE SumLen(f, n - 1) + len(f[n])

RECURSIVE SumBytes(_, _)
SumBytes(f, n) == IF n = 0 THEN 0 ELSE SumBytes(f, n - 1) + byteLen(f[n])

totalChars(f) == SumLen(f, Len(f))

totalBytes(f) == SumBytes(f, Len(f))

(***************************************************************************)
(* get_source_location_by_offset.  The result is either the returned pair  *)
(* or the failure path: LOGGER.error followed by sys.exit(1).              *)
(***************************************************************************)
NotCalled == [kind |-> "none", line |-> 0, column |-> 0, status |-> 0, logged |-> FALSE]

Returned(line, column) ==
    [kind |-> "return", line |-> line, column |-> column, status |-> 0, logged |-> FALSE]

ExitError == [kind |-> "exit", line |-> 0, column |-> 0, status |-> 1, logged |-> TRUE]

\* A scan that stops only when the cumulative length exceeds the offset.
RECURSIVE ScanStrict(_, _, _, _, _)
ScanStrict(f, i, line_ctr, overall, offset) ==
    IF i > Len(f)
    THEN ExitError
    ELSE LET ctr == line_ctr + 1
             ov == overall + len(f[i])
         IN  IF ov > offset
             THEN Returned(ctr, ov - offset)
             ELSE ScanStrict(f, i + 1, ctr, ov, offset)

\* A scan that returns the end of the file instead of failing.
RECURSIVE ScanNoFail(_, _, _, _, _)
ScanNoFail(f, i, line_ctr, overall, offset) ==
    IF i > Len(f)
    THEN Returned(line_ctr, overall - offset)
    ELSE LET ctr == line_ctr + 1
             ov == overall + len(f[i])
         IN  IF ov >= offset
             THEN Returned(ctr, ov - offset)
             ELSE ScanNoFail(f, i + 1, ctr, ov, offset)

\* A scan that reports the column counted from the start of the line.
RECURSIVE ScanLeftColumn(_, _, _, _, _)
ScanLeftColumn(f, i, line_ctr, overall, offset) ==
    IF i > Len(f)
    THEN ExitError
    ELSE LET ctr == line_ctr + 1
             ov == overall + len(f[i])
         IN  IF ov >= offset
             THEN Returned(ctr, offset - overall)
             ELSE ScanLeftColumn(f, i + 1, ctr, ov, offset)

\* The loop of lines 320-324 from line i on, then lines 325-328.
RECURSIVE Scan(_, _, _, _, _)
Scan(f, i, line_ctr, overall, offset) ==
    IF i > Len(f)
    THEN ExitError
    ELSE LET ctr == line_ctr + 1
             ov == overall + len(f[i])
         IN  IF ov >= offset
             THEN Returned(ctr, ov - offset)
             ELSE Scan(f, i + 1, ctr, ov, offset)

get_source_location_by_offset(f, offset) == Scan(f, 1, 0, 0, offset)

(***************************************************************************)
(* The credential file.  Its content is what json.load makes of it: t is   *)
(* the Python type of the loaded value ("absent": no file at the path,     *)
(* "invalid": not JSON).  keys is the set of CONFIG_KEYS k for which       *)
(* "k in config" is true: the keys of a dict, the elements of a list, the  *)
(* substrings of a str.  The four fields are the values a dict holds under *)
(* the keys it has ("" under a key it does not have).                      *)
(***************************************************************************)
CONFIG_KEYS == {"access", "refresh", "username", "password"}

ZeroAddress == "0x0000000000000000000000000000000000000000"

Tokens == {"", "jwt"}

Addresses == {ZeroAddress, "0xUser"}

Passwords == {"trial"}

FileValue(t, keys, access, refresh, username, password) ==
    [t |-> t, keys |-> keys, access |-> access, refresh |-> refresh,
     username |-> username, password |-> password]

Scalar(t) == FileValue(t, {}, "", "", "", "")

DictValues ==
    {FileValue("dict", keys, a, r, u, p) :
        keys \in SUBSET CONFIG_KEYS, a \in Tokens, r \in Tokens,
        u \in Addresses \cup {""}, p \in Passwords \cup {""}}

\* The dicts, each once: a key that is not there has no value.
Dicts ==
    {d \in DictValues :
        /\ ("access" \in d.keys) \/ d.access = ""
        /\ ("refresh" \in d.keys) \/ d.refresh = ""
        /\ ("username" \in d.keys) = (d.username # "")
        /\ ("password" \in d.keys) = (d.password # "")}

Containers == {FileValue(t, keys, "", "", "", "") : t \in {"list", "str"}, keys \in SUBSET CONFIG_KEYS}

Scalars == {Scalar(t) : t \in {"int", "float", "bool", "NoneType"}}

ParsedValues == Dicts \cup Containers \cup Scalars

FileAbsent == Scalar("absent")

ConfigFiles == ParsedValues \cup {FileAbsent, Scalar("invalid")}

\* What update_config writes: json.dump of the four keys.
WrittenConfig(username, password, access, refresh) ==
    FileValue("dict", CONFIG_KEYS, access, refresh, username, password)

(***************************************************************************)
(* parse_config.  It returns the config, or exits with status 1 after one  *)
(* of its two diagnostics, or ends in an exception nothing catches.        *)
(***************************************************************************)
NotParsed == [kind |-> "none", status |-> 0, echo |-> "", error |-> "", config |-> FileAbsent]

ConfigReturned(config) ==
    [kind |-> "return", status |-> 0, echo |-> "", error |-> "", config |-> config]

ConfigExit(message) ==
    [kind |-> "exit", status |-> 1, echo |-> message, error |-> "", config |-> FileAbsent]

ConfigRaised(error) ==
    [kind |-> "raise", status |-> 1, echo |-> "", error |-> error, config |-> FileAbsent]

MalformedKeys == "Malformed config file doesn't contain required keys"

MalformedTokens == "Malformed config file does not contain access and refresh token"

\* "k in config" is defined for these types only; any other raises TypeError.
SupportsIn(config) == config.t \in {"dict", "list", "str"}

parse_config(file, tokens_required) ==
    CASE file.t = "absent" -> ConfigRaised("FileNotFoundError")
      [] file.t = "invalid" -> ConfigRaised("JSONDecodeError")
      [] OTHER ->
           IF ~SupportsIn(file)
           THEN ConfigRaised("TypeError")
           ELSE LET keys_present == \A k \in CONFIG_KEYS : k \in file.keys
                IN  IF ~(file.t = "dict" /\ keys_present)
                    THEN ConfigExit(MalformedKeys)
                    ELSE IF tokens_required /\ ~(file.access # "" /\ file.refresh # "")
                         THEN ConfigExit(MalformedTokens)
                         ELSE ConfigReturned(file)

IdleResolve == r_file = <<>> /\ r_offset = 0 /\ r_ret = NotCalled

IdleConfig == p_tokens = FALSE /\ p_ret = NotParsed

(***************************************************************************)
(* The commands.  A command ends by returning, by sys.exit (Exited), or in *)
(* an exception that nothing catches (Raised: a traceback and status 1).   *)
(* "by" names the function that ended it.                                  *)
(***************************************************************************)
Running == [kind |-> "running", status |-> 0, error |-> "", by |-> ""]

Finished(by) == [kind |-> "return", status |-> 0, error |-> "", by |-> by]

Exited(status, by) == [kind |-> "exit", status |-> status, error |-> "", by |-> by]

Raised(error, by) == [kind |-> "raise", status |-> 1, error |-> error, by |-> by]

\* click.echo of a text, and of a table made by tabulate.
Text(text) == [is_table |-> FALSE, text |-> text, rows |-> <<>>]

Table(rows) == [is_table |-> TRUE, text |-> "", rows |-> rows]

Guidance == "This functionality is only available to registered users."

NoClient == [eth_address |-> "", password |-> "", access_token |-> "", refresh_token |-> ""]

MakeClient(eth_address, password, access, refresh) ==
    [eth_address |-> eth_address, password |-> password,
     access_token |-> access, refresh_token |-> refresh]

FreshTokens == {"jwt", "jwt2"}

(***************************************************************************)
(* What the command cannot decide itself: the address and password taken   *)
(* from the environment or the prompt on first use, whether login and the  *)
(* command's own call to the service succeed, and the access token the     *)
(* client holds after a call that succeeded.                               *)
(***************************************************************************)
Inputs ==
    [eth_address : Addresses, password : Passwords,
     login_ok : BOOLEAN, call_ok : BOOLEAN, access : FreshTokens]

\* An intermediate result of a command: the client, the credential file, the
\* methods called, the writes made, the lines echoed and how it ended.
Step(c, file, calls, n, echo, end) ==
    [client |-> c, file |-> file, called |-> calls, writes |-> n,
     echo |-> echo, end |-> end]

\* update_config(config_path, c.eth_address, c.password, c.access_token,
\* c.refresh_token)
update_config(c) ==
    WrittenConfig(c.eth_address, c.password, c.access_token, c.refresh_token)

recover_client(file, exit_on_missing, in) ==
    IF file.t = "absent"
    THEN IF exit_on_missing
         THEN Step(NoClient, file, {}, 0, <<>>, Finished("recover_client"))
         ELSE IF ~in.login_ok
              THEN Step(NoClient, file, {"login"}, 0, <<>>,
                        Raised("RemoteError", "login"))
              ELSE LET c == MakeClient(in.eth_address, in.password, in.access, "jwt")
                   IN  Step(c, update_config(c), {"login"}, 1, <<>>, Running)
    ELSE LET parsed == parse_config(file, TRUE)
         IN  CASE parsed.kind = "exit" ->
                    Step(NoClient, file, {}, 0, <<Text(parsed.echo)>>,
                         Exited(parsed.status, "parse_config"))
               [] parsed.kind = "raise" ->
                    Step(NoClient, file, {}, 0, <<>>,
                         Raised(parsed.error, "parse_config"))
               [] OTHER ->
                    Step(MakeClient(parsed.config.username, parsed.config.password,
                                    parsed.config.access, parsed.config.refresh),
                         file, {}, 0, <<>>, Running)

(***************************************************************************)
(* ps and top.                                                             *)
(***************************************************************************)
NumberMin == 1
NumberMax == 100
TopNumber == 20

Min(a, b) == IF a <= b THEN a ELSE b

Numbers == NumberMin..Min(MaxNumber, NumberMax)

\* resp.analyses as the service returns it: most recent first, each analysis
\* standing for its (uuid, status, submitted_at).
Listings == {[i \in 1..k |-> i] : k \in 0..MaxAnalyses}

\* analyses[:n]
Slice(analyses, n) == SubSeq(analyses, 1, Min(n, Len(analyses)))

\* ps_core that lists without looking at the address.
ps_core_no_check(file, n, in, analyses) ==
    LET rc == recover_client(file, FALSE, in)
    IN  IF rc.end.kind # "running"
        THEN [step |-> rc, analyses |-> <<>>]
        ELSE IF ~in.call_ok
             THEN [step |-> Step(rc.client, rc.file, rc.called \cup {"analysis_list"},
                                 rc.writes, rc.echo, Raised("RemoteError", "analysis_list")),
                   analyses |-> <<>>]
             ELSE LET c == [rc.client EXCEPT !.access_token = in.access]
                  IN  [step |-> Step(c, update_config(c), rc.called \cup {"analysis_list"},
                                     rc.writes + 1, rc.echo, Running),
                       analyses |-> Slice(analyses, n + 1)]

\* ps_core(config, staging, number); analyses is what analysis_list returns
\* when it is called and succeeds.
ps_core(file, n, in, analyses) ==
    LET rc == recover_client(file, FALSE, in)
    IN  IF rc.end.kind # "running"
        THEN [step |-> rc, analyses |-> <<>>]
        ELSE IF rc.client.eth_address = ZeroAddress
             THEN [step |-> Step(rc.client, rc.file, rc.called, rc.writes,
                                 rc.echo \o <<Text(Guidance)>>, Exited(0, "ps_core")),
                   analyses |-> <<>>]
             ELSE IF ~in.call_ok
                  THEN [step |-> Step(rc.client, rc.file, rc.called \cup {"analysis_list"},
                                      rc.writes, rc.echo,
                                      Raised("RemoteError", "analysis_list")),
                        analyses |-> <<>>]
                  ELSE LET c == [rc.client EXCEPT !.access_token = in.access]
                       IN  [step |-> Step(c, update_config(c),
                                          rc.called \cup {"analysis_list"},
                                          rc.writes + 1, rc.echo, Running),
                            analyses |-> Slice(analyses, n + 1)]

\* The rows ps and top tabulate: one per analysis of resp.analyses.
AnalysisRows(analyses) == [i \in 1..Len(analyses) |-> <<analyses[i]>>]

\* The credential files the commands are started with: none, complete ones,
\* one without tokens, one that lacks a key, one that is not an object.
CommandConfigs ==
    {FileAbsent, Scalar("int"),
     FileValue("dict", CONFIG_KEYS \ {"refresh"}, "jwt", "", "0xUser", "trial"),
     FileValue("dict", CONFIG_KEYS, "", "jwt", "0xUser", "trial"),
     FileValue("dict", CONFIG_KEYS, "jwt", "jwt", "0xUser", "trial"),
     FileValue("dict", CONFIG_KEYS, "jwt", "jwt", ZeroAddress, "trial")}

IdlePs == number = 0 /\ listing = <<>> /\ iter = 0

NoArgs == [bytecode |-> None, source |-> None, bytecode_file |-> None, source_file |-> None]

NoSources == [name |-> "", source |-> <<>>]

NotAnalyzed == [bytecode |-> None, sources |-> NoSources]

IdleCheck == args = NoArgs /\ analyze_args = NotAnalyzed

Unbound == "<unbound>"

NoPosition == [bound |-> FALSE, line |-> 0, column |-> 0]

NoIssue == [id |-> 0, locations |-> <<>>]

IdleReport ==
    /\ source_list = None
    /\ issue = NoIssue
    /\ issue_ctr = 0
    /\ filename = Unbound
    /\ position = NoPosition
    /\ file_to_issue = <<>>
    /\ resolved = FALSE

IdleCommand ==
    /\ config0 = config_file
    /\ pc = "start"
    /\ cmd = ""
    /\ term = Running
    /\ out = <<>>
    /\ client = NoClient
    /\ called = {}
    /\ writes = 0

InitCommand ==
    /\ config_file \in CommandConfigs
    /\ IdleCommand
    /\ IdlePs
    /\ IdleCheck
    /\ IdleReport
    /\ IdleResolve
    /\ IdleConfig

\* The command ps, from its start to its end.
Ps ==
    /\ pc = "start"
    /\ \E n \in Numbers, in \in Inputs, analyses \in Listings :
          LET r == ps_core(config_file, n, in, analyses)
              ok == r.step.end.kind = "running"
          IN  /\ cmd' = "ps"
              /\ number' = n
              /\ listing' = IF "analysis_list" \in r.step.called /\ in.call_ok
                            THEN analyses ELSE <<>>
              /\ client' = r.step.client
              /\ config_file' = r.step.file
              /\ called' = r.step.called
              /\ writes' = r.step.writes
              /\ out' = IF ok THEN r.step.echo \o <<Table(AnalysisRows(r.analyses))>>
                              ELSE r.step.echo
              /\ term' = IF ok THEN Finished("ps") ELSE r.step.end
              /\ pc' = "done"
    /\ UNCHANGED <<config0, iter, rvars, pvars, kvars, repvars>>

\* One round of the loop of top: ps_core, clear, echo, sleep.
Top ==
    /\ pc = "start" \/ (pc = "top" /\ cmd = "top")
    /\ iter < MaxTopIter
    /\ \E in \in Inputs, analyses \in Listings :
          LET r == ps_core(config_file, TopNumber, in, analyses)
              ok == r.step.end.kind = "running"
          IN  /\ cmd' = "top"
              /\ iter' = iter + 1
              /\ number' = TopNumber
              /\ listing' = IF "analysis_list" \in r.step.called /\ in.call_ok
                            THEN analyses ELSE <<>>
              /\ client' = r.step.client
              /\ config_file' = r.step.file
              /\ called' = called \cup r.step.called
              /\ writes' = writes + r.step.writes
              /\ out' = IF ok THEN <<Table(AnalysisRows(r.analyses))>>
                              ELSE out \o r.step.echo
              /\ term' = r.step.end
              /\ pc' = IF ok THEN "top" ELSE "done"
    /\ UNCHANGED <<config0, rvars, pvars, kvars, repvars>>


(***************************************************************************)
(* check.  --bytecode and --source are strings or None; --bytecode-file    *)
(* and --source-file are None or the path of a regular file that exists,   *)
(* given here by the text read from it.                                    *)
(***************************************************************************)
SourceArgs == {None, Some(<<>>), Some(<<"x">>)}

SourceFiles == {None, Some(<<"x", " ">>)}

CheckArgs ==
    [bytecode : Opt(Strings), source : SourceArgs,
     bytecode_file : Opt(Strings), source_file : SourceFiles]

\* sources_f: {} (no name), or one name with its source.
Sources(name, source) == [name |-> name, source |-> source]

\* Lines 296 and 298-300: bytecode_f.
check_bytecode(bytecode, bytecode_file) ==
    LET bytecode_f == IF Truthy(bytecode) THEN bytecode ELSE None
    IN  IF bytecode_file.some
        THEN Some(strip(bytecode_file.v))
        ELSE bytecode_f

\* Lines 297 and 301-303: sources_f.
check_sources(source, source_file) ==
    LET sources_f == IF Truthy(source) THEN Sources("cli-src.sol", source.v) ELSE NoSources
    IN  IF source_file.some
        THEN Sources("abspath(source_file)", strip(source_file.v))
        ELSE sources_f

\* The command check, from its start to its end.
Check ==
    /\ pc = "start"
    /\ \E a \in CheckArgs, in \in Inputs :
          LET rc == recover_client(config_file, FALSE, in)
              up == rc.end.kind = "running"
              ok == up /\ in.call_ok
              c == [rc.client EXCEPT !.access_token = in.access]
          IN  /\ cmd' = "check"
              /\ args' = a
              /\ analyze_args' =
                    IF up
                    THEN [bytecode |-> check_bytecode(a.bytecode, a.bytecode_file),
                          sources |-> check_sources(a.source, a.source_file)]
                    ELSE NotAnalyzed
              /\ called' = IF up THEN rc.called \cup {"analyze"} ELSE rc.called
              /\ client' = IF ok THEN c ELSE rc.client
              /\ config_file' = IF ok THEN update_config(c) ELSE rc.file
              /\ writes' = IF ok THEN rc.writes + 1 ELSE rc.writes
              /\ out' = IF ok THEN rc.echo \o <<Text("Analysis submitted as job")>>
                              ELSE rc.echo
              /\ term' = CASE ok -> Finished("check")
                           [] up -> Raised("RemoteError", "analyze")
                           [] OTHER -> rc.end
              /\ pc' = "done"
    /\ UNCHANGED <<config0, rvars, pvars, psvars, repvars>>


(***************************************************************************)
(* report.  The source files on disk are fixed: a.sol has two lines (of 2  *)
(* and 1 characters), b.sol one line of 1 character, and there is no       *)
(* gone.sol.  A location is the source map "offset:length:file_idx" of an  *)
(* issue; parts is the number of fields split(":") finds in it.            *)
(***************************************************************************)
PlainLine(n) == [chars |-> n, extra |-> 0]

OnDisk(name) == name \in {"a.sol", "b.sol"}

Disk(name) ==
    CASE name = "a.sol" -> <<PlainLine(2), PlainLine(1)>>
      [] name = "b.sol" -> <<PlainLine(1)>>
      [] OTHER -> <<>>

SourceLists ==
    {None, Some(<<>>), Some(<<"a.sol", "b.sol">>), Some(<<"gone.sol", "a.sol">>)}

Location(offset, file_idx, parts) ==
    [offset |-> offset, file_idx |-> file_idx, parts |-> parts]

Locations ==
    {Location(o, i, 3) : o \in {1, 3}, i \in {0 - 1, 0, 2}} \cup {Location(0, 0, 4)}

\* list[i] in Python: a negative index counts from the end.
ValidIndex(list, i) == (0 - Len(list)) <= i /\ i < Len(list)

PyIndex(list, i) == IF i >= 0 THEN list[i + 1] ELSE list[Len(list) + i + 1]

\* The locals of report that the loop over the locations assigns, and how the
\* loop ended.
Locals(name, pos, res, end) ==
    [filename |-> name, position |-> pos, resolved |-> res, end |-> end]

Position(line, column) == [bound |-> TRUE, line |-> line, column |-> column]

\* The inner loop with a location that does not resolve skipped.
RECURSIVE locations_loop_skip(_, _, _, _)
locations_loop_skip(locs, i, sl, st) ==
    IF i > Len(locs)
    THEN st
    ELSE LET loc == locs[i]
         IN  IF loc.parts # 3
             THEN [st EXCEPT !.end = Raised("ValueError", "report")]
             ELSE IF Truthy(sl)
                  THEN IF ~ValidIndex(sl.v, loc.file_idx)
                       THEN [st EXCEPT !.end = Raised("IndexError", "report")]
                       ELSE LET name == PyIndex(sl.v, loc.file_idx)
                                r == get_source_location_by_offset(Disk(name), loc.offset)
                            IN  IF ~OnDisk(name)
                                THEN Locals(name, st.position, TRUE,
                                            Raised("FileNotFoundError",
                                                   "get_source_location_by_offset"))
                                ELSE IF r.kind = "exit"
                                     THEN locations_loop_skip(locs, i + 1, sl,
                                              Locals(name, st.position, TRUE, Running))
                                     ELSE locations_loop_skip(locs, i + 1, sl,
                                              Locals(name, Position(r.line, r.column),
                                                     TRUE, Running))
                  ELSE locations_loop_skip(locs, i + 1, sl, [st EXCEPT !.filename = "Unknown"])

\* Lines 343-348: the loop over the locations of one issue, from location i on.
RECURSIVE locations_loop(_, _, _, _)
locations_loop(locs, i, sl, st) ==
    IF i > Len(locs)
    THEN st
    ELSE LET loc == locs[i]
         IN  IF loc.parts # 3
             THEN [st EXCEPT !.end = Raised("ValueError", "report")]
             ELSE IF Truthy(sl)
                  THEN IF ~ValidIndex(sl.v, loc.file_idx)
                       THEN [st EXCEPT !.end = Raised("IndexError", "report")]
                       ELSE LET name == PyIndex(sl.v, loc.file_idx)
                                r == get_source_location_by_offset(Disk(name), loc.offset)
                            IN  IF ~OnDisk(name)
                                THEN Locals(name, st.position, TRUE,
                                            Raised("FileNotFoundError",
                                                   "get_source_location_by_offset"))
                                ELSE IF r.kind = "exit"
                                     THEN Locals(name, st.position, TRUE,
                                                 Exited(r.status,
                                                        "get_source_location_by_offset"))
                                     ELSE locations_loop(locs, i + 1, sl,
                                              Locals(name, Position(r.line, r.column),
                                                     TRUE, Running))
                  ELSE locations_loop(locs, i + 1, sl, [st EXCEPT !.filename = "Unknown"])

\* file_to_issue, a defaultdict(list): its keys in insertion order, each with
\* its rows.
HasKey(fti, name) == \E k \in 1..Len(fti) : fti[k].file = name

\* file_to_issue[name]: a key that is not there is added with no rows.
EnsureKey(fti, name) ==
    IF HasKey(fti, name) THEN fti ELSE Append(fti, [file |-> name, rows |-> <<>>])

\* file_to_issue[name].append(row)
AppendRow(fti, name, row) ==
    LET d == EnsureKey(fti, name)
    IN  [k \in 1..Len(d) |->
            IF d[k].file = name THEN [d[k] EXCEPT !.rows = Append(@, row)] ELSE d[k]]

\* The row of an issue: (line, column, swc_title, severity, description_short),
\* the last three standing together as the issue's position in resp.issues.
Row(pos, an_issue) == <<pos.line, pos.column, an_issue.id>>

\* One round of the loop that leaves the inner loop after the first location.
report_issue_first(fti, st0, sl, an_issue) ==
    LET locs == an_issue.locations
        st == locations_loop(SubSeq(locs, 1, Min(1, Len(locs))), 1, sl, st0)
    IN  IF st.end.kind # "running"
        THEN [file_to_issue |-> fti, locals |-> st]
        ELSE IF st.filename = Unbound
             THEN [file_to_issue |-> fti,
                   locals |-> [st EXCEPT !.end = Raised("UnboundLocalError", "report")]]
             ELSE IF ~st.position.bound
                  THEN [file_to_issue |-> EnsureKey(fti, st.filename),
                        locals |-> [st EXCEPT !.end = Raised("UnboundLocalError", "report")]]
                  ELSE [file_to_issue |-> AppendRow(fti, st.filename, Row(st.position, an_issue)),
                        locals |-> st]

\* Lines 342-351: one round of the loop over resp.issues.
report_issue(fti, st0, sl, an_issue) ==
    LET st == locations_loop(an_issue.locations, 1, sl, st0)
    IN  IF st.end.kind # "running"
        THEN [file_to_issue |-> fti, locals |-> st]
        ELSE IF st.filename = Unbound
             THEN [file_to_issue |-> fti,
                   locals |-> [st EXCEPT !.end = Raised("UnboundLocalError", "report")]]
             ELSE IF ~st.position.bound
                  THEN [file_to_issue |-> EnsureKey(fti, st.filename),
                        locals |-> [st EXCEPT !.end = Raised("UnboundLocalError", "report")]]
                  ELSE [file_to_issue |-> AppendRow(fti, st.filename, Row(st.position, an_issue)),
                        locals |-> st]

\* Lines 353-367: "Report for <file>" and the table of its rows, per file.
RECURSIVE Render(_, _)
Render(fti, k) ==
    IF k > Len(fti)
    THEN <<>>
    ELSE <<Text(fti[k].file), Table(fti[k].rows)>> \o Render(fti, k + 1)

Issues(id) == {[id |-> id, locations |-> locs] : locs \in SeqsUpTo(Locations, MaxLocs)}

\* Lines 336-339: the client, the report of the service, the empty mapping.
ReportStart ==
    /\ pc = "start"
    /\ \E in \in Inputs, sl \in SourceLists :
          LET rc == recover_client(config_file, FALSE, in)
              up == rc.end.kind = "running"
              ok == up /\ in.call_ok
          IN  /\ cmd' = "report"
              /\ called' = IF up THEN rc.called \cup {"report"} ELSE rc.called
              /\ client' = IF ok THEN [rc.client EXCEPT !.access_token = in.access]
                                 ELSE rc.client
              /\ config_file' = rc.file
              /\ writes' = rc.writes
              /\ out' = rc.echo
              /\ source_list' = IF ok THEN sl ELSE None
              /\ term' = CASE ok -> Running
                           [] up -> Raised("RemoteError", "report")
                           [] OTHER -> rc.end
              /\ pc' = IF ok THEN "report" ELSE "done"
    /\ UNCHANGED <<config0, issue, issue_ctr, filename, position, file_to_issue,
                   resolved, rvars, pvars, psvars, kvars>>

\* One round of the loop over resp.issues, with the next issue of the list.
ReportIssue ==
    /\ pc = "report"
    /\ issue_ctr < MaxIssues
    /\ \E next \in Issues(issue_ctr + 1) :
          LET r == report_issue(file_to_issue,
                                Locals(filename, position, resolved, Running),
                                source_list, next)
          IN  /\ issue' = next
              /\ issue_ctr' = issue_ctr + 1
              /\ filename' = r.locals.filename
              /\ position' = r.locals.position
              /\ resolved' = r.locals.resolved
              /\ file_to_issue' = r.file_to_issue
              /\ term' = r.locals.end
              /\ pc' = IF r.locals.end.kind = "running" THEN "report" ELSE "done"
    /\ UNCHANGED <<config_file, config0, cmd, out, client, called, writes,
                   source_list, rvars, pvars, psvars, kvars>>

\* resp.issues has no further issue: the tables, then update_config.
ReportFinish ==
    /\ pc = "report"
    /\ out' = out \o Render(file_to_issue, 1)
    /\ config_file' = update_config(client)
    /\ writes' = writes + 1
    /\ term' = Finished("report")
    /\ pc' = "done"
    /\ UNCHANGED <<config0, cmd, client, called, repvars, rvars, pvars, psvars, kvars>>

(***************************************************************************)
(* The command line: one invocation of ps, top, check or report.           *)
(***************************************************************************)
Init == InitCommand

Next == Ps \/ Top \/ Check \/ ReportStart \/ ReportIssue \/ ReportFinish

Spec == Init /\ [][Next]_vars

(***************************************************************************)
(* parse_config on its own: every credential file within the bounds.       *)
(***************************************************************************)
InitConfig ==
    /\ config_file \in ConfigFiles
    /\ p_tokens \in BOOLEAN
    /\ p_ret = NotParsed
    /\ IdleResolve
    /\ IdleCommand
    /\ IdlePs
    /\ IdleCheck
    /\ IdleReport

ParseConfig ==
    /\ p_ret.kind = "none"
    /\ p_ret' = parse_config(config_file, p_tokens)
    /\ UNCHANGED <<config_file, p_tokens, rvars, cvars, psvars, kvars, repvars>>

NextConfig == ParseConfig

SpecConfig == InitConfig /\ [][NextConfig]_vars

(***************************************************************************)
(* The resolver on its own: every file and offset within the bounds.       *)
(***************************************************************************)
InitResolve ==
    /\ r_file \in Files
    /\ r_offset \in Offsets
    /\ r_ret = NotCalled
    /\ config_file = FileAbsent
    /\ IdleConfig
    /\ IdleCommand
    /\ IdlePs
    /\ IdleCheck
    /\ IdleReport

Resolve ==
    /\ r_ret.kind = "none"
    /\ r_ret' = get_source_location_by_offset(r_file, r_offset)
    /\ UNCHANGED <<r_file, r_offset, config_file, pvars, cvars, psvars, kvars, repvars>>

NextResolve == Resolve

SpecResolve == InitResolve /\ [][NextResolve]_vars

(***************************************************************************)
(* Claims about get_source_location_by_offset, under SpecResolve.          *)
(***************************************************************************)
Called == r_ret.kind # "none"

\* The position (line, column) satisfies the accounting of C1 for offset o.
PositionAccountsFor(f, o, line, column) ==
    /\ line \in 1..Len(f)
    /\ SumLen(f, line - 1) + (len(f[line]) - column) = o
    /\ SumLen(f, line) >= o
    /\ \A j \in 1..(line - 1) : SumLen(f, j) < o

C2_FailurePath ==
    (Called /\ (\/ r_offset > totalBytes(r_file)
                \/ r_offset > totalChars(r_file)
                \/ Len(r_file) = 0))
        => r_ret = ExitError

\* C2 witness: an offset past the last byte of a file that has lines.
C2_Witness ==
    /\ Called
    /\ Len(r_file) >= 1
    /\ r_offset > totalBytes(r_file)
    /\ r_ret.kind = "exit"
    /\ r_ret.status = 1

\* C3 as stated: for a file whose first line is non-empty, offset 0 resolves to
\* line 1 and column 0.
C3_AsStated ==
    (Called /\ Len(r_file) >= 1 /\ len(r_file[1]) >= 1 /\ r_offset = 0)
        => r_ret = Returned(1, 0)

\* C3 amended: for a file whose first line is non-empty, offset 0 resolves to
\* line 1 and to the column len(line 1), the distance from the end of line 1
\* back to the offset, which is at least 1.
C3_OffsetZero ==
    (Called /\ Len(r_file) >= 1 /\ len(r_file[1]) >= 1 /\ r_offset = 0)
        => /\ r_ret = Returned(1, len(r_file[1]))
           /\ r_ret.column >= 1

\* C3 witness: offset 0 resolved in a file with a first line of two characters.
C3_Witness ==
    /\ Called
    /\ Len(r_file) >= 1
    /\ len(r_file[1]) = 2
    /\ r_offset = 0
    /\ r_ret.kind = "return"

(***************************************************************************)
(* Claims about parse_config, under SpecConfig.                            *)
(***************************************************************************)
\* A parsed value that is malformed or incomplete: not an object, or an object
\* missing at least one of access, refresh, username, password.
Malformed(file) ==
    /\ file \in ParsedValues
    /\ file.t # "dict" \/ ~(CONFIG_KEYS \subseteq file.keys)

\* C4 as stated: for every parsed credential-file value that is malformed or
\* incomplete, parse_config prints the malformed-config diagnostic and exits
\* with status 1; it never returns a config and never ends in any other error.
C4_AsStated ==
    (p_ret.kind # "none" /\ Malformed(config_file))
        => p_ret = ConfigExit(MalformedKeys)

(***************************************************************************)
(* Claims about ps and top, under Spec.                                    *)
(***************************************************************************)
\* recover_client has returned a client to the command.
Recovered == pc # "start" /\ client # NoClient

\* The table the command echoed last, if it echoed one.
ShownRows == IF out # <<>> /\ out[Len(out)].is_table THEN out[Len(out)].rows ELSE <<>>

\* C5: when the recovered client's address is the default unregistered address,
\* ps and top echo the guidance message and exit with status 0 without ever
\* calling analysis_list; analysis_list is called only for a registered address.
C5_UnregisteredGuidance ==
    /\ (cmd \in {"ps", "top"} /\ Recovered /\ client.eth_address = ZeroAddress)
          => /\ term = Exited(0, "ps_core")
             /\ pc = "done"
             /\ out # <<>>
             /\ out[Len(out)] = Text(Guidance)
             /\ \A i \in 1..Len(out) : ~out[i].is_table
             /\ "analysis_list" \notin called
    /\ ("analysis_list" \in called)
          => (Recovered /\ client.eth_address # ZeroAddress)

\* C5 witness: top on first use, logged in with the default address, has left
\* with status 0.
C5_Witness ==
    /\ cmd = "top"
    /\ config0 = FileAbsent
    /\ "login" \in called
    /\ client.eth_address = ZeroAddress
    /\ term.kind = "exit"
    /\ term.status = 0

\* C8 as stated: for every --number N and every analysis list the service
\* returns, ps displays at most N analyses: the first N entries of the list.
C8_AsStated ==
    (cmd = "ps" /\ term = Finished("ps"))
        => /\ Len(ShownRows) <= number
           /\ ShownRows = AnalysisRows(Slice(listing, number))

(***************************************************************************)
(* Claims about check, under Spec.                                         *)
(***************************************************************************)
\* C9 as stated: when check is given both a non-empty --bytecode argument and a
\* --bytecode-file, the bytecode passed to analyze is the --bytecode argument.
C9_AsStated ==
    (/\ cmd = "check"
     /\ "analyze" \in called
     /\ Truthy(args.bytecode)
     /\ args.bytecode_file.some)
        => analyze_args.bytecode = args.bytecode

(***************************************************************************)
(* Claims about report, under Spec.                                        *)
(***************************************************************************)
\* The loop over resp.issues has taken at least one issue.
InLoop == cmd = "report" /\ issue_ctr >= 1

RECURSIVE CountRows(_, _)
CountRows(fti, k) == IF k = 0 THEN 0 ELSE CountRows(fti, k - 1) + Len(fti[k].rows)

TotalRows(fti) == CountRows(fti, Len(fti))

\* The rows filed under a file ("no rows" for a file that is no key).
RowsOf(fti, name) ==
    IF HasKey(fti, name)
    THEN fti[CHOOSE k \in 1..Len(fti) : fti[k].file = name].rows
    ELSE <<>>

HasTable(echoed) == \E i \in 1..Len(echoed) : echoed[i].is_table

WellFormed(an_issue) ==
    \A i \in 1..Len(an_issue.locations) : an_issue.locations[i].parts = 3

\* C6 as stated: when the report's source-file list is absent (empty or None),
\* report resolves no offset, files every issue under "Unknown", and still
\* completes rendering: the run does not end in an error.
C6_AsStated ==
    (InLoop /\ ~Truthy(source_list) /\ WellFormed(issue) /\ Len(issue.locations) >= 1)
        => /\ ~resolved
           /\ term.kind # "raise"
           /\ \A k \in 1..Len(file_to_issue) : file_to_issue[k].file = "Unknown"
           /\ TotalRows(file_to_issue) = issue_ctr
           /\ pc = "done" => (term = Finished("report") /\ HasTable(out))

\* A location that the loop gets through: three fields, an index into the
\* source list, a file that is there.
Readable(loc) ==
    /\ loc.parts = 3
    /\ ValidIndex(source_list.v, loc.file_idx)
    /\ OnDisk(PyIndex(source_list.v, loc.file_idx))

Resolves(loc) ==
    /\ Readable(loc)
    /\ get_source_location_by_offset(Disk(PyIndex(source_list.v, loc.file_idx)),
                                     loc.offset).kind = "return"

\* The issue has a location whose offset does not resolve, and every location
\* before that one resolves.
ResolutionFails(an_issue) ==
    \E i \in 1..Len(an_issue.locations) :
        /\ Readable(an_issue.locations[i])
        /\ ~Resolves(an_issue.locations[i])
        /\ \A j \in 1..(i - 1) : Resolves(an_issue.locations[j])

ExitedByResolver == term.kind = "exit" /\ term.by = "get_source_location_by_offset"

\* C7 as stated: if offset resolution fails for any location of any issue, the
\* invocation ends with exit status 1 at that point: no report table is echoed
\* for any file, update_config is never called, and the credential file is as
\* it was before the run.
C7_AsStated ==
    /\ (InLoop /\ Truthy(source_list) /\ ResolutionFails(issue)) => ExitedByResolver
    /\ ExitedByResolver
          => /\ term.status = 1
             /\ pc = "done"
             /\ ~HasTable(out)
             /\ writes = 0
             /\ config_file = config0

\* C7 amended: if offset resolution fails for any location of any issue, the
\* invocation ends with exit status 1 at that point: no report table is echoed
\* for any file and the update_config that ends report is never reached, so a
\* credential file that was there before the run is left unchanged; when there
\* was none, recover_client has written it, once, after the login of first use.
C7_AbortOnFailure ==
    /\ (InLoop /\ Truthy(source_list) /\ ResolutionFails(issue)) => ExitedByResolver
    /\ ExitedByResolver
          => /\ term.status = 1
             /\ pc = "done"
             /\ ~HasTable(out)
             /\ writes = (IF config0 = FileAbsent THEN 1 ELSE 0)
             /\ (config0 # FileAbsent) => (config_file = config0)
             /\ (config0 = FileAbsent)
                   => (\E a \in FreshTokens :
                          config_file = WrittenConfig(client.eth_address,
                                                      client.password, a, "jwt"))

\* C7 witness: the second issue fails to resolve after the first was filed.
C7_Witness ==
    /\ InLoop
    /\ issue_ctr = 2
    /\ ResolutionFails(issue)
    /\ TotalRows(file_to_issue) = 1
    /\ ExitedByResolver
    /\ config0 # FileAbsent

\* An issue of the kind C10 is about: at least one location, each resolvable.
Good(an_issue) ==
    /\ Len(an_issue.locations) >= 1
    /\ \A i \in 1..Len(an_issue.locations) : Resolves(an_issue.locations[i])

LastLocation(an_issue) == an_issue.locations[Len(an_issue.locations)]

LastFile(an_issue) == PyIndex(source_list.v, LastLocation(an_issue).file_idx)

LastPosition(an_issue) ==
    get_source_location_by_offset(Disk(LastFile(an_issue)), LastLocation(an_issue).offset)

\* The third field of a row is the place of its issue in resp.issues: within a
\* file, rows are in the order of their issues.
InIssueOrder(rows) == \A i, j \in 1..Len(rows) : i < j => rows[i][3] < rows[j][3]

\* C10, the state part: while report runs with a present source list, the rows
\* of all files together are as many as the issues taken, and the rows of each
\* file are in issue order.
C10_Rows ==
    (cmd = "report" /\ Truthy(source_list) /\ term.kind \in {"running", "return"})
        => /\ TotalRows(file_to_issue) = issue_ctr
           /\ \A k \in 1..Len(file_to_issue) : InIssueOrder(file_to_issue[k].rows)
           /\ \A k, l \in 1..Len(file_to_issue) :
                 file_to_issue[k].file = file_to_issue[l].file => k = l

\* C10, the step part: a round of the loop with an issue whose locations all
\* resolve appends one row, under the file and position of the last location.
C10_Step ==
    (/\ pc = "report"
     /\ issue_ctr' = issue_ctr + 1
     /\ Truthy(source_list)
     /\ Good(issue'))
        => /\ term' = Running
           /\ TotalRows(file_to_issue') = TotalRows(file_to_issue) + 1
           /\ RowsOf(file_to_issue', LastFile(issue'))
                 = Append(RowsOf(file_to_issue, LastFile(issue')),
                          <<LastPosition(issue').line, LastPosition(issue').column,
                            issue'.id>>)
           /\ \A k \in 1..Len(file_to_issue) :
                 /\ file_to_issue'[k].file = file_to_issue[k].file
                 /\ file_to_issue[k].file # LastFile(issue')
                       => file_to_issue'[k].rows = file_to_issue[k].rows

\* C10: with a present source list, every offset resolvable and every issue
\* having at least one location, each round of the loop appends exactly one row,
\* filed under the file and the (line, column) of the issue's last location and
\* no other; so the rows of all files together are as many as the issues
\* processed, however many locations an issue has, and the rows of a file are
\* in the order of their issues.
C10_OneRowPerIssue == [](C10_Rows) /\ [][C10_Step]_vars

\* C10 witness: two issues filed, the second with two locations in two files.
C10_Witness ==
    /\ cmd = "report"
    /\ pc = "report"
    /\ issue_ctr = 2
    /\ Truthy(source_list)
    /\ Good(issue)
    /\ Len(issue.locations) = 2
    /\ LastFile(issue) # PyIndex(source_list.v, issue.locations[1].file_idx)
    /\ TotalRows(file_to_issue) = 2
    /\ Len(file_to_issue) = 2

====
